---- MODULE Spec2Model ----
(***************************************************************************)
(* Model of app/main.py (Docling PDF OCR API): the bounding-box            *)
(* normalizer _bbox_to_list, the provenance resolver                       *)
(* _extract_page_and_bbox, the element extractor _extract_objects, the     *)
(* page/overlay builder of convert_pdf and the POST /parse handler.        *)
(*                                                                         *)
(* Python values are modelled as tagged records.  A function result is a   *)
(* record whose field st is "ok", "none" (Python None) or "raise" (an      *)
(* exception leaves the function).                                         *)
(***************************************************************************)
EXTENDS Integers, Sequences, FiniteSets, TLC

VARIABLES
    pc,         \* position of the function under check: "call" | "ret" | "idle"
    bbox,       \* argument of _bbox_to_list
    bboxRet,    \* its outcome
    element,    \* argument of _extract_page_and_bbox
    provRet,    \* its outcome
    doc,        \* argument of _extract_objects: the parsed document
    extractRet, \* its outcome
    convIn,     \* what convert_pdf meets: the converter's and rasterizer's outcomes
    convRet,    \* its outcome
    requests,   \* POST /parse: each request's position, locals and response
    files       \* the temporary files that exist on disk

bboxVars == <<bbox, bboxRet>>

provVars == <<element, provRet>>

extractVars == <<doc, extractRet>>

convVars == <<convIn, convRet>>

parseVars == <<requests, files>>

vars == <<pc, bbox, bboxRet, element, provRet, doc, extractRet, convIn, convRet,
          requests, files>>

\* ------------------------------------------------------- sizes of the inputs
\* Largest coordinate value drawn for an input.
MaxCoord == 1
\* Longest list / iterable drawn for an input.
MaxLen == 5

\* ------------------------------------------------------- scalar values
Num(n) == [t |-> "num", v |-> n]
\* The string "1": float("1") is 1.0.
NumStr == [t |-> "numstr", v |-> 1]
\* A string that is no number: float() raises ValueError.
NaS == [t |-> "nas", v |-> 0]
\* Python None: float() raises TypeError.
NoneV == [t |-> "none", v |-> 0]

\* The values drawn for a coordinate (None fails in float() as NaS does).
CoordVals == {Num(n) : n \in 0..MaxCoord} \cup {NumStr, NaS}

\* float(x): the converted value, or a TypeError / ValueError.
Float(x) ==
    IF x.t \in {"num", "numstr"} THEN [ok |-> TRUE, v |-> x.v]
    ELSE [ok |-> FALSE, v |-> 0]

\* ------------------------------------------------------- function outcomes
None == [st |-> "none", v |-> <<>>]
Raise == [st |-> "raise", v |-> <<>>]
Ok(coords) == [st |-> "ok", v |-> coords]

\* [float(s[i]) for i in 1..n]: the list, or the exception of the first failure.
FloatAll(s, n) ==
    IF \A i \in 1..n : Float(s[i]).ok
    THEN Ok([i \in 1..n |-> Float(s[i]).v])
    ELSE Raise

\* ------------------------------------------------------- bbox shapes
\* kind: "none" (None), "seq" (list or tuple), "dict", "obj" (an object with
\* attributes, not iterable), "iter" (an iterable that is no list, tuple, dict,
\* str or bytes and has no coordinate attributes), "str" (str or bytes).
BNone == [kind |-> "none", items |-> <<>>, m |-> <<>>]
BSeq(s) == [kind |-> "seq", items |-> s, m |-> <<>>]
BIter(s) == [kind |-> "iter", items |-> s, m |-> <<>>]
BStr == [kind |-> "str", items |-> <<>>, m |-> <<>>]
BDict(f) == [kind |-> "dict", items |-> <<>>, m |-> f]
BObj(f) == [kind |-> "obj", items |-> <<>>, m |-> f]

DictKeyGroups ==
    << <<"left", "top", "right", "bottom">>,
       <<"l", "t", "r", "b">>,
       <<"x0", "y0", "x1", "y1">> >>

AttrGroupsSwapped ==
    << <<"left", "top", "right", "bottom">>,
       <<"l", "t", "r", "b">>,
       <<"x0", "x1", "y0", "y1">> >>

AttrGroups ==
    << <<"left", "top", "right", "bottom">>,
       <<"l", "t", "r", "b">>,
       <<"x0", "y0", "x1", "y1">> >>

\* hasattr(bbox, name) for a coordinate name: only "obj" values carry them.
HasAttr(b, name) == b.kind = "obj" /\ name \in DOMAIN b.m

\* The dict branch: the first key group whose four keys are all present and
\* all convert; a group that fails to convert is passed over.
RECURSIVE DictGroups(_, _)
DictGroups(b, g) ==
    IF g > Len(DictKeyGroups) THEN None
    ELSE LET keys == DictKeyGroups[g]
         IN  IF (\A i \in 1..4 : keys[i] \in DOMAIN b.m)
                /\ (\A i \in 1..4 : Float(b.m[keys[i]]).ok)
             THEN Ok([i \in 1..4 |-> Float(b.m[keys[i]]).v])
             ELSE DictGroups(b, g + 1)

\* The inner loop over one attribute group: coords collected so far; an absent
\* attribute is skipped, a conversion failure ends the loop (break).
RECURSIVE AttrCoords(_, _, _, _)
AttrCoords(b, attrs, i, coords) ==
    IF i > Len(attrs) THEN coords
    ELSE IF ~HasAttr(b, attrs[i]) THEN AttrCoords(b, attrs, i + 1, coords)
    ELSE IF Float(b.m[attrs[i]]).ok
         THEN AttrCoords(b, attrs, i + 1, Append(coords, Float(b.m[attrs[i]]).v))
         ELSE coords

RECURSIVE AttrGroupsFrom(_, _)
AttrGroupsFrom(b, g) ==
    IF g > Len(AttrGroups) THEN None
    ELSE LET coords == AttrCoords(b, AttrGroups[g], 1, <<>>)
         IN  IF Len(coords) = 4 THEN Ok(coords) ELSE AttrGroupsFrom(b, g + 1)

\* list(bbox): the items of a list, tuple or iterable; the keys of a dict,
\* which are names and so no numbers.
Listed(b) ==
    IF b.kind = "dict"
    THEN LET n == Cardinality(DOMAIN b.m) IN [i \in 1..n |-> NaS]
    ELSE b.items

\* The last branch: an iterable that is no str or bytes, its first four items.
IterFallback(b) ==
    IF b.kind \in {"seq", "dict", "iter"}
    THEN LET all == Listed(b)
             vals == SubSeq(all, 1, IF Len(all) < 4 THEN Len(all) ELSE 4)
         IN  IF Len(vals) = 4 /\ FloatAll(vals, 4).st = "ok"
             THEN FloatAll(vals, 4)
             ELSE None
    ELSE None

_bbox_to_list(b) ==
    IF b.kind = "none" THEN None
    ELSE IF b.kind = "seq" /\ Len(b.items) >= 4 THEN FloatAll(b.items, 4)
    ELSE LET d == IF b.kind = "dict" THEN DictGroups(b, 1) ELSE None
         IN  IF d.st = "ok" THEN d
             ELSE LET a == AttrGroupsFrom(b, 1)
                  IN  IF a.st = "ok" THEN a ELSE IterFallback(b)

\* ------------------------------------------------------- bbox inputs
\* The three conventions under which a parsed document names the coordinates
\* (left, top, right, bottom) of a bbox.
CoordNames ==
    << <<"left", "top", "right", "bottom">>,
       <<"l", "t", "r", "b">>,
       <<"x0", "y0", "x1", "y1">> >>

NamesOf(g) == {CoordNames[g][i] : i \in 1..4}

\* The numbers q[1..4] under the names of convention g.
Named(g, q) == [k \in NamesOf(g) |->
                  Num(q[CHOOSE i \in 1..4 : CoordNames[g][i] = k])]

SeqsUpTo(S, n) == UNION {[1..k -> S] : k \in 0..n}

\* Every mapping from a subset of one convention's names to coordinate values.
GroupMaps(g) == UNION {[K -> CoordVals] : K \in SUBSET NamesOf(g)}

\* A mapping with two conventions at once: q under g, u under h.
TwoGroups(g, q, h, u) ==
    [k \in NamesOf(g) \cup NamesOf(h) |->
        IF k \in NamesOf(g) THEN Named(g, q)[k] ELSE Named(h, u)[k]]

\* The values of every shape, with lists and iterables of up to n items.
BboxInputs(n) ==
    {BNone, BStr}
    \cup {BSeq(s) : s \in SeqsUpTo(CoordVals, n)}
    \cup {BIter(s) : s \in SeqsUpTo(CoordVals, n)}
    \cup UNION {{BDict(f), BObj(f)} : f \in UNION {GroupMaps(g) : g \in 1..3}}
    \cup UNION {{BDict(TwoGroups(g, <<0, 1, 0, 1>>, h, <<1, 1, 0, 0>>)),
                 BObj(TwoGroups(g, <<0, 1, 0, 1>>, h, <<1, 1, 0, 0>>))} :
                    g \in 1..3, h \in {2, 3}}

\* ------------------------------------------------------- provenance
\* Truth value of a scalar: None and 0 are falsy.
TruthyVal(x) == ~(x.t = "none" \/ (x.t = "num" /\ x.v = 0))

\* Truth value of a bbox value: None, an empty list or tuple and an empty dict
\* are falsy; an object is truthy.
TruthyBbox(b) ==
    CASE b.kind = "none" -> FALSE
      [] b.kind = "seq" -> Len(b.items) > 0
      [] b.kind = "dict" -> DOMAIN b.m # {}
      [] OTHER -> TRUE

\* Python's `x or y`.
OrVal(x, y) == IF TruthyVal(x) THEN x ELSE y
OrBbox(x, y) == IF TruthyBbox(x) THEN x ELSE y

\* int(x) of a page number.
IntOf(x) ==
    IF x.t \in {"num", "numstr"} THEN [ok |-> TRUE, v |-> Num(x.v)]
    ELSE [ok |-> FALSE, v |-> NoneV]

\* Outcomes of _extract_page_and_bbox: the pair (page, bbox), or an exception.
Pair(page, bl) == [st |-> "ok", page |-> page, bbox |-> bl]
PairRaise == [st |-> "raise", page |-> NoneV, bbox |-> None]

\* A provenance record p: getattr(p, name, None) is its field, None when absent.
PageOf(p) == OrVal(p.page_no, p.page)

BboxOf(p) == OrBbox(OrBbox(p.bbox, p.bounding_box), p.box)

\* The fallback loop over the element's own attributes bbox, bounding_box, box.
RECURSIVE ElementAttrs(_, _)
ElementAttrs(attrs, i) ==
    IF i > Len(attrs) THEN Pair(NoneV, None)
    ELSE LET bl == _bbox_to_list(attrs[i])
         IN  IF bl.st = "raise" THEN PairRaise
             ELSE IF bl.st = "ok" THEN Pair(NoneV, bl)
             ELSE ElementAttrs(attrs, i + 1)

ElementFallback(e) == ElementAttrs(<<e.bbox, e.bounding_box, e.box>>, 1)

\* The loop over the provenance records, from record i on.
RECURSIVE ProvFrom(_, _)
ProvFrom(e, i) ==
    IF i > Len(e.prov.recs) THEN ElementFallback(e)
    ELSE LET p == e.prov.recs[i]
             page_no == PageOf(p)
             bl == _bbox_to_list(BboxOf(p))
         IN  IF bl.st = "raise" THEN PairRaise
             ELSE IF bl.st = "ok" \/ page_no # NoneV
             THEN IF page_no = NoneV THEN Pair(NoneV, bl)
                  ELSE IF IntOf(page_no).ok THEN Pair(IntOf(page_no).v, bl)
                  ELSE PairRaise
             ELSE ProvFrom(e, i + 1)

_extract_page_and_bbox(e) ==
    IF e.prov.kind = "list" /\ Len(e.prov.recs) > 0
    THEN ProvFrom(e, 1)
    ELSE ElementFallback(e)

\* ------------------------------------------------------- provenance inputs
\* Most provenance records drawn for one element.
MaxProv == 2

GoodA == BSeq(<<Num(0), Num(0), Num(1), Num(1)>>)
GoodB == BDict(Named(2, <<0, 1, 1, 1>>))
GoodC == BObj(Named(3, <<1, 0, 1, 1>>))
GoodD == BObj(Named(1, <<1, 1, 0, 0>>))
GoodE == BIter(<<Num(1), NumStr, Num(0), Num(1)>>)
EmptyList == BSeq(<<>>)
BadList == BSeq(<<NaS, Num(0), Num(1), Num(1)>>)

ProvRecords ==
    [page_no : {NoneV, Num(0), Num(1)},
     page : {NoneV, Num(2)},
     bbox : {BNone, EmptyList, GoodA, BadList},
     bounding_box : {BNone, GoodB},
     box : {BNone, GoodC}]

\* prov: absent (None), a list of records, or a value that is no list.
ProvValues(n) ==
    {[kind |-> "none", recs |-> <<>>], [kind |-> "tuple", recs |-> <<>>]}
    \cup {[kind |-> "list", recs |-> r] : r \in SeqsUpTo(ProvRecords, n)}

\* The elements with up to n provenance records.
Elements(n) ==
    [prov : ProvValues(n),
     bbox : {BNone, BadList, GoodD},
     bounding_box : {BNone, GoodE},
     box : {BNone}]

NoElement ==
    [prov |-> [kind |-> "none", recs |-> <<>>],
     bbox |-> BNone, bounding_box |-> BNone, box |-> BNone]

IdleProv == element = NoElement /\ provRet = Pair(NoneV, None)

\* ------------------------------------------------------- _extract_objects
\* Coordinates of a parsed document are in quarter points, so that rounding to
\* one decimal acts on them; a rounded coordinate is in tenths of a point.

\* The integer nearest to num / den (den > 0), ties to the even one.
RoundHalfEven(num, den) ==
    LET q == num \div den
        r == num % den
    IN  IF 2 * r < den THEN q
        ELSE IF 2 * r > den THEN q + 1
        ELSE IF q % 2 = 0 THEN q ELSE q + 1

\* round(float(x), 1) of x quarter points, in tenths of a point.
Round1(x) == RoundHalfEven(x * 10, 4)

\* bbox_rounded: None for an absent bbox.
BboxRounded(bl) ==
    IF bl.st = "ok" /\ Len(bl.v) >= 4
    THEN Ok([i \in 1..4 |-> Round1(bl.v[i])])
    ELSE None

\* An element of the document: its class (TableItem, PictureItem or another),
\* the outcome of its export_to_markdown and get_image ("absent": no such
\* callable), its caption, category, text and content ("" for a missing or
\* empty one) and the placement attributes _extract_page_and_bbox reads.
TableText(el) == IF el.export_md = "ok" THEN "md" ELSE ""

OrStr(x, y) == IF x # "" THEN x ELSE y

\* _picture_to_base64: the PNG in base64 ("png"), or None ("") when get_image
\* is absent, returns None ("none") or raises, or when img.save raises
\* ("save_raise").
_picture_to_base64(el) ==
    CASE el.get_image = "absent" -> ""
      [] el.get_image = "none" -> ""
      [] el.get_image \in {"raise", "save_raise"} -> ""
      [] OTHER -> "png"

KindOf(el) ==
    IF el.cls = "table" THEN "table"
    ELSE IF el.cls = "picture" THEN "image"
    ELSE OrStr(el.category, "text")

TextOf(el) ==
    IF el.cls = "table" THEN TableText(el)
    ELSE IF el.cls = "picture" THEN el.caption
    ELSE OrStr(OrStr(el.text, el.content), "")

\* The object built for one element; image_base64 = "" stands for the key
\* being left out.
ObjectOf(el, pb) ==
    [type |-> KindOf(el),
     page |-> pb.page,
     bbox |-> BboxRounded(pb.bbox),
     text |-> TextOf(el),
     image_base64 |-> IF el.cls = "picture" THEN _picture_to_base64(el) ELSE ""]

\* _iterate_items: doc.iterate_items(), or doc.elements when there is none.
_iterate_items(d) == d.items

ExtractOk(objs) == [st |-> "ok", objects |-> objs]
ExtractRaise == [st |-> "raise", objects |-> <<>>]

\* The loop over the elements, from element i on.
RECURSIVE ExtractFrom(_, _, _)
ExtractFrom(items, i, objects) ==
    IF i > Len(items) THEN ExtractOk(objects)
    ELSE LET pb == _extract_page_and_bbox(items[i])
         IN  IF pb.st = "raise" THEN ExtractRaise
             ELSE ExtractFrom(items, i + 1, Append(objects, ObjectOf(items[i], pb)))

\* The object built for one block of the exported dict.
BlockObject(block, bl) ==
    [type |-> OrStr(OrStr(block.category, block.type), "unknown"),
     page |-> OrVal(block.page_no, block.page),
     bbox |-> BboxRounded(bl),
     text |-> block.text,
     image_base64 |-> ""]

RECURSIVE BlocksFrom(_, _, _)
BlocksFrom(blocks, i, objects) ==
    IF i > Len(blocks) THEN ExtractOk(objects)
    ELSE LET bl == _bbox_to_list(blocks[i].bbox)
         IN  IF bl.st = "raise" THEN ExtractRaise
             ELSE BlocksFrom(blocks, i + 1, Append(objects, BlockObject(blocks[i], bl)))

\* data.get("blocks") or data.get("elements") or []
BlocksOf(data) == IF Len(data.blocks) > 0 THEN data.blocks ELSE data.elements

_extract_objects(d) ==
    LET r == ExtractFrom(_iterate_items(d), 1, <<>>)
    IN  IF r.st = "ok" /\ Len(r.objects) = 0 /\ d.has_export_to_dict
        THEN BlocksFrom(BlocksOf(d.data), 1, <<>>)
        ELSE r

\* ------------------------------------------------------- documents
\* Most elements drawn for one document.
MaxElems == 2

\* One provenance record with a page and an object bbox.
Placed(page, q) ==
    [kind |-> "list",
     recs |-> << [page_no |-> Num(page), page |-> NoneV,
                  bbox |-> BObj(Named(2, q)),
                  bounding_box |-> BNone, box |-> BNone] >>]

NoProv == [kind |-> "none", recs |-> <<>>]

\* Placements: none; on page 1 with the full 12 x 12 pt page as bbox (left, top,
\* right, bottom; origin bottom-left); on page 2 with a bbox off the tenth-of-
\* a-point grid; an own bbox list with a non-numeric entry.
Placements ==
    {[prov |-> NoProv, bbox |-> BNone],
     [prov |-> Placed(1, <<0, 48, 48, 0>>), bbox |-> BNone],
     [prov |-> Placed(2, <<1, 35, 23, 3>>), bbox |-> BNone],
     [prov |-> NoProv, bbox |-> BadList]}

ElementOf(pl, cls, export_md, get_image, caption, category, text, content) ==
    [prov |-> pl.prov, bbox |-> pl.bbox, bounding_box |-> BNone, box |-> BNone,
     cls |-> cls, export_md |-> export_md, get_image |-> get_image,
     caption |-> caption, category |-> category, text |-> text,
     content |-> content]

DocElements ==
    {ElementOf(pl, "table", e, "absent", "", "", "", "") :
        pl \in Placements, e \in {"absent", "ok", "raise"}}
    \cup {ElementOf(pl, "picture", "absent", g, c, "", "", "") :
        pl \in Placements, g \in {"absent", "none", "raise", "save_raise", "ok"},
        c \in {"", "cap"}}
    \cup {ElementOf(pl, "other", "absent", "absent", "", c, t, "c") :
        pl \in Placements, c \in {"", "title"}, t \in {"", "t"}}

Blocks ==
    {[category |-> "", type |-> "para", page_no |-> NoneV, page |-> Num(1),
      bbox |-> GoodA, text |-> "b"],
     [category |-> "table", type |-> "", page_no |-> Num(2), page |-> NoneV,
      bbox |-> BNone, text |-> ""]}

NoData == [blocks |-> <<>>, elements |-> <<>>]

\* Documents with elements, and documents without any that may export a dict.
Docs(n) ==
    {[items |-> it, has_export_to_dict |-> FALSE, data |-> NoData] :
        it \in SeqsUpTo(DocElements, n)}
    \cup {[items |-> <<>>, has_export_to_dict |-> TRUE,
           data |-> [blocks |-> b, elements |-> e]] :
            b \in SeqsUpTo(Blocks, 1), e \in SeqsUpTo(Blocks, 1)}

NoDoc == [items |-> <<>>, has_export_to_dict |-> FALSE, data |-> NoData]

IdleBbox == bbox = BNone /\ bboxRet = None

IdleExtract == doc = NoDoc /\ extractRet = ExtractOk(<<>>)

\* ------------------------------------------------------- convert_pdf
\* Rasterization resolution, dots per inch.
Dpi == 150
\* Points per inch.
PointsPerInch == 72
\* bbox_norm is rounded to 4 decimals: it is kept in units of 1/NormScale.
NormScale == 10000

\* round(c / size_pt, 4) for c tenths of a point on a side of px pixels, where
\* size_pt = px * 72 / 150; in units of 1/10000.
NormAlong(c, px) ==
    RoundHalfEven(c * Dpi * NormScale, 10 * px * PointsPerInch)

\* round(1.0 - c / size_pt, 4), likewise.
NormFlipped(c, px) ==
    RoundHalfEven((10 * px * PointsPerInch - c * Dpi) * NormScale,
                  10 * px * PointsPerInch)

\* bbox_norm of an object on a page of w_px x h_px pixels.
BboxNorm(obj, w_px, h_px) ==
    IF obj.bbox.st # "ok" \/ Len(obj.bbox.v) < 4 THEN None
    ELSE LET left == obj.bbox.v[1]
             top == obj.bbox.v[2]
             right == obj.bbox.v[3]
             bottom == obj.bbox.v[4]
         IN  Ok(<< NormAlong(left, w_px), NormFlipped(bottom, h_px),
                   NormAlong(right, w_px), NormFlipped(top, h_px) >>)

\* elements_on_page: the objects of this page, in order, each with its bbox_norm.
RECURSIVE ElementsOnPage(_, _, _, _)
ElementsOnPage(objects, j, page_num, img) ==
    IF j > Len(objects) THEN <<>>
    ELSE LET rest == ElementsOnPage(objects, j + 1, page_num, img)
         IN  IF objects[j].page # Num(page_num) THEN rest
             ELSE << [obj |-> objects[j],
                      bbox_norm |-> BboxNorm(objects[j], img.w_px, img.h_px)] >>
                  \o rest

\* The loop over the page images inside the try: an exception while a page is
\* encoded leaves the loop, and pages_for_ui keeps what was appended before.
RECURSIVE PagesFromPartial(_, _, _, _)
PagesFromPartial(objects, images, i, pages_for_ui) ==
    IF i > Len(images) THEN pages_for_ui
    ELSE IF images[i].save = "raise" THEN pages_for_ui
    ELSE PagesFromPartial(objects, images, i + 1,
            Append(pages_for_ui,
                   [page |-> i,
                    image_width_px |-> images[i].w_px,
                    image_height_px |-> images[i].h_px,
                    elements |-> ElementsOnPage(objects, 1, i, images[i])]))

\* pages_for_ui after the try / except.
PagesForUi(objects, raster) ==
    IF raster.st = "raise" THEN <<>>
    ELSE PagesFromPartial(objects, raster.images, 1, <<>>)

ConvRaise ==
    [st |-> "raise", text |-> "", objects |-> <<>>, pages |-> <<>>, num_pages |-> 0]

convert_pdf(inp) ==
    IF inp.converter = "raise" THEN ConvRaise
    ELSE LET ex == _extract_objects(inp.doc)
         IN  IF ex.st = "raise" THEN ConvRaise
             ELSE LET pages_for_ui == PagesForUi(ex.objects, inp.raster)
                  IN  [st |-> "ok", text |-> inp.text, objects |-> ex.objects,
                       pages |-> pages_for_ui, num_pages |-> Len(pages_for_ui)]

\* ------------------------------------------------------- convert_pdf inputs
\* Most pages drawn for one PDF.
MaxPages == 2

\* Page sizes in pixels: 25 px at 150 dpi are 12 pt.
PagePx == {25, 50}

PageImages == [w_px : PagePx, h_px : PagePx, save : {"ok", "raise"}]

Rasters(n) ==
    {[st |-> "raise", images |-> <<>>]}
    \cup {[st |-> "ok", images |-> im] : im \in SeqsUpTo(PageImages, n)}

ConvElements ==
    {ElementOf(pl, "other", "absent", "absent", "", "", "t", "") : pl \in Placements}
    \cup {ElementOf([prov |-> Placed(1, <<0, 48, 48, 0>>), bbox |-> BNone],
                    "table", "raise", "absent", "", "", "", "")}

ConvDocs(n) ==
    {[items |-> it, has_export_to_dict |-> FALSE, data |-> NoData] :
        it \in SeqsUpTo(ConvElements, n)}

\* Documents of up to n elements on PDFs of up to m pages.
ConvInputs(n, m) ==
    {[converter |-> "raise", doc |-> NoDoc, text |-> "",
      raster |-> [st |-> "raise", images |-> <<>>]]}
    \cup [converter : {"ok"}, doc : ConvDocs(n), text : {"txt"}, raster : Rasters(m)]

NoConvInput ==
    [converter |-> "ok", doc |-> NoDoc, text |-> "",
     raster |-> [st |-> "raise", images |-> <<>>]]

IdleConv == convIn = NoConvInput /\ convRet = ConvRaise

\* ------------------------------------------------------- POST /parse
\* Requests served concurrently.
NumReqs == 2

Reqs == 1..NumReqs

\* Declared content types of an upload; "" is an upload that declares none.
ContentTypes == {"application/pdf", "application/octet-stream", "text/plain", ""}

\* A check that only asks for some declared content type.
LaxContentType(ct) == ct # ""

\* The content-type check of parse_pdf.
IsPdfContentType(ct) == ct \in {"application/pdf", "application/octet-stream"}

\* What convert_pdf meets for an upload: a converter that fails, a document
\* whose extraction raises, a one-page document.
ParseConvInputs ==
    {[converter |-> "raise", doc |-> NoDoc, text |-> "",
      raster |-> [st |-> "raise", images |-> <<>>]],
     [converter |-> "ok",
      doc |-> [items |-> <<ElementOf([prov |-> NoProv, bbox |-> BadList],
                                     "other", "absent", "absent", "", "", "t", "")>>,
               has_export_to_dict |-> FALSE, data |-> NoData],
      text |-> "txt",
      raster |-> [st |-> "raise", images |-> <<>>]],
     [converter |-> "ok",
      doc |-> [items |-> <<ElementOf([prov |-> Placed(1, <<0, 48, 48, 0>>),
                                      bbox |-> BNone],
                                     "other", "absent", "absent", "", "", "t", "")>>,
               has_export_to_dict |-> FALSE, data |-> NoData],
      text |-> "txt",
      raster |-> [st |-> "ok",
                  images |-> <<[w_px |-> 25, h_px |-> 25, save |-> "ok"]>>]]}

\* A request: pc is its position in parse_pdf; tmp_path_bound says whether the
\* local tmp_path has been assigned; created, read and converted record that the
\* temp file was created, the upload read and convert_pdf invoked; status, error
\* and result are the response (status 0: none yet).
NewRequest(ct) ==
    [pc |-> "start", content_type |-> ct, tmp_path_bound |-> FALSE,
     created |-> FALSE, read |-> FALSE, converted |-> FALSE,
     status |-> 0, error |-> "", result |-> ConvRaise]

IdleParse == requests = [r \in Reqs |-> NewRequest("")] /\ files = {}

\* ------------------------------------------------------- _bbox_to_list alone
InitBbox ==
    /\ pc = "call"
    /\ bbox \in BboxInputs(MaxLen)
    /\ bboxRet = None
    /\ IdleProv
    /\ IdleExtract
    /\ IdleConv
    /\ IdleParse

BboxToList ==
    /\ pc = "call"
    /\ pc' = "ret"
    /\ bboxRet' = _bbox_to_list(bbox)
    /\ UNCHANGED <<bbox, provVars, extractVars, convVars, parseVars>>

NextBbox == BboxToList

SpecBbox == InitBbox /\ [][NextBbox]_vars

\* The coordinates the normalizer reads from b, when b holds a full set: the
\* first four items, or the values under the names of one convention.
FullSets(b) ==
    IF b.kind \in {"seq", "iter"}
    THEN IF Len(b.items) >= 4 THEN {SubSeq(b.items, 1, 4)} ELSE {}
    ELSE {[i \in 1..4 |-> b.m[CoordNames[g][i]]] :
            g \in {h \in 1..3 : NamesOf(h) \subseteq DOMAIN b.m}}

\* Malformed: no full set of numeric coordinates (a non-numeric coordinate in
\* each full set, 3 of 4 keys, an empty object).
Malformed(b) ==
    \A q \in FullSets(b) : \E i \in 1..4 : q[i].t \notin {"num", "numstr"}

\* C2: _bbox_to_list never raises: whatever the input, it returns None or a
\* list of exactly four floats, and None for a malformed bbox (a non-numeric
\* coordinate, only 3 of 4 keys, an empty object).
C2_NeverRaises ==
    pc = "ret" =>
        /\ \/ bboxRet = None
           \/ bboxRet.st = "ok" /\ Len(bboxRet.v) = 4
        /\ Malformed(bbox) => bboxRet = None

\* What does hold of the code: the same, for every input but a list or tuple of
\* four or more entries.
TotalOffLongLists ==
    ~(bbox.kind = "seq" /\ Len(bbox.items) >= 4) => C2_NeverRaises

\* bbox carries exactly four numbers in one of the supported shapes: a list
\* or iterable of four numbers, or a mapping or object whose names are those
\* of one convention, each with a number.
IsNumber(x) == x.t = "num"

CarriesQuad(b) ==
    \/ b.kind \in {"seq", "iter"} /\ Len(b.items) = 4
       /\ \A i \in 1..4 : IsNumber(b.items[i])
    \/ b.kind \in {"dict", "obj"}
       /\ (\E g \in 1..3 : DOMAIN b.m = NamesOf(g))
       /\ \A k \in DOMAIN b.m : IsNumber(b.m[k])

\* The (a, b, c, d) it carries.
QuadOf(b) ==
    IF b.kind \in {"seq", "iter"} THEN [i \in 1..4 |-> b.items[i].v]
    ELSE LET g == CHOOSE h \in 1..3 : DOMAIN b.m = NamesOf(h)
         IN  [i \in 1..4 |-> b.m[CoordNames[g][i]].v]

\* C6: four numeric coordinates (a, b, c, d) come back as [a, b, c, d] from
\* every supported shape: a 4-element list, a mapping or an object under any of
\* the three naming groups, a generic 4-item iterable.
C6_SameListFromEveryShape ==
    pc = "ret" /\ CarriesQuad(bbox) => bboxRet = Ok(QuadOf(bbox))

\* An object under (x0, y0, x1, y1) with distinct coordinates was normalized.
C6_Witness ==
    /\ pc = "ret"
    /\ bbox = BObj(Named(3, <<0, 1, 1, 0>>))
    /\ bboxRet = Ok(<<0, 1, 1, 0>>)

\* ------------------------------------------------------- _extract_page_and_bbox alone
InitProv ==
    /\ pc = "call"
    /\ element \in Elements(MaxProv)
    /\ provRet = Pair(NoneV, None)
    /\ IdleBbox
    /\ IdleExtract
    /\ IdleConv
    /\ IdleParse

ExtractPageAndBbox ==
    /\ pc = "call"
    /\ pc' = "ret"
    /\ provRet' = _extract_page_and_bbox(element)
    /\ UNCHANGED <<element, bboxVars, extractVars, convVars, parseVars>>

NextProv == ExtractPageAndBbox

SpecProv == InitProv /\ [][NextProv]_vars

\* The reading of a record that the claims state: the first field that is not
\* None, and the bbox normalized to four floats or absent.
FirstNonNullVal(x, y) == IF x # NoneV THEN x ELSE y

FirstNonNullBbox(x, y, z) == IF x # BNone THEN x ELSE IF y # BNone THEN y ELSE z

Normalized(b) == IF _bbox_to_list(b).st = "ok" THEN _bbox_to_list(b) ELSE None

ClaimPage(p) == FirstNonNullVal(p.page_no, p.page)

ClaimBboxValue(p) == FirstNonNullBbox(p.bbox, p.bounding_box, p.box)

Usable(p) == ClaimPage(p) # NoneV \/ Normalized(ClaimBboxValue(p)).st = "ok"

HasProvList == element.prov.kind = "list" /\ Len(element.prov.recs) > 0

\* C7: with a non-empty provenance list the result is the page and bbox of the
\* first record that has a page number or a normalizable bbox, both taken from
\* that record; records before it are skipped, records after it are not read.
C7_FirstUsableRecordWins ==
    pc = "ret" /\ HasProvList =>
        \A k \in 1..Len(element.prov.recs) :
            (Usable(element.prov.recs[k])
             /\ \A j \in 1..(k - 1) : ~Usable(element.prov.recs[j]))
            => provRet = Pair(ClaimPage(element.prov.recs[k]),
                              Normalized(ClaimBboxValue(element.prov.recs[k])))

\* The first of the element's own bbox, bounding_box, box that normalizes.
FirstNormalizing(e) ==
    IF Normalized(e.bbox).st = "ok" THEN Normalized(e.bbox)
    ELSE IF Normalized(e.bounding_box).st = "ok" THEN Normalized(e.bounding_box)
    ELSE Normalized(e.box)

\* C8: when the provenance is absent, empty or made only of records with neither
\* a page number nor a normalizable bbox, the result is (None, B), B being the
\* first of the element's bbox, bounding_box, box that normalizes, or None.
C8_FallbackToElementAttrs ==
    (/\ pc = "ret"
     /\ element.prov.kind \in {"none", "list"}
     /\ \A k \in 1..Len(element.prov.recs) : ~Usable(element.prov.recs[k]))
    => provRet = Pair(NoneV, FirstNormalizing(element))

\* What does hold of the code: C7 and C8 on the elements where no record has
\* page_no = 0 or a falsy bbox field and no bbox is a list that fails to convert.
Plain(p) == p.page_no # Num(0) /\ p.bbox \notin {EmptyList, BadList}

PlainElement ==
    /\ \A k \in 1..Len(element.prov.recs) : Plain(element.prov.recs[k])
    /\ element.bbox # BadList

FirstUsableRecordWinsOnPlain == PlainElement => C7_FirstUsableRecordWins

FallbackToElementAttrsOnPlain == PlainElement => C8_FallbackToElementAttrs

\* C10: within a record the page number is the first of page_no, page that is
\* not None and the bbox value the first of bbox, bounding_box, box that is not
\* None; a falsy value that is present (0, an empty list) is the one selected.
C10_FirstNonNullField ==
    pc = "ret" /\ HasProvList =>
        /\ PageOf(element.prov.recs[1]) = ClaimPage(element.prov.recs[1])
        /\ BboxOf(element.prov.recs[1]) = ClaimBboxValue(element.prov.recs[1])

\* ------------------------------------------------------- _extract_objects alone
InitExtract ==
    /\ pc = "call"
    /\ doc \in Docs(MaxElems)
    /\ extractRet = ExtractOk(<<>>)
    /\ IdleBbox
    /\ IdleProv
    /\ IdleConv
    /\ IdleParse

ExtractObjects ==
    /\ pc = "call"
    /\ pc' = "ret"
    /\ extractRet' = _extract_objects(doc)
    /\ UNCHANGED <<doc, bboxVars, provVars, convVars, parseVars>>

NextExtract == ExtractObjects

SpecExtract == InitExtract /\ [][NextExtract]_vars

\* C5: a document of n >= 1 elements yields exactly n objects, the i-th built
\* from the i-th element (type "table", "image", or the category or "text"); a
\* failing markdown export leaves that element's text empty and a failing image
\* rendering leaves out its image_base64, and every other element is kept.
C5_OneObjectPerElement ==
    pc = "ret" /\ Len(doc.items) >= 1 =>
        /\ extractRet.st = "ok"
        /\ Len(extractRet.objects) = Len(doc.items)
        /\ \A i \in 1..Len(doc.items) :
              LET el == doc.items[i]
                  obj == extractRet.objects[i]
              IN  /\ obj.type = (CASE el.cls = "table" -> "table"
                                   [] el.cls = "picture" -> "image"
                                   [] OTHER -> IF el.category = "" THEN "text"
                                               ELSE el.category)
                  /\ el.cls = "table" /\ el.export_md # "ok" => obj.text = ""
                  /\ el.cls = "table" /\ el.export_md = "ok" => obj.text = "md"
                  /\ el.cls = "picture" => obj.text = el.caption
                  /\ el.cls = "picture" /\ el.get_image # "ok" => obj.image_base64 = ""
                  /\ el.cls = "picture" /\ el.get_image = "ok" => obj.image_base64 # ""

\* What does hold of the code: C5 on the documents where no element has a bbox
\* list that fails to convert.
OneObjectPerElementOnPlain ==
    (\A i \in 1..Len(doc.items) : doc.items[i].bbox # BadList)
    => C5_OneObjectPerElement

\* ------------------------------------------------------- convert_pdf alone
InitConvert ==
    /\ pc = "call"
    /\ convIn \in ConvInputs(MaxElems, MaxPages)
    /\ convRet = ConvRaise
    /\ IdleBbox
    /\ IdleProv
    /\ IdleExtract
    /\ IdleParse

ConvertPdf ==
    /\ pc = "call"
    /\ pc' = "ret"
    /\ convRet' = convert_pdf(convIn)
    /\ UNCHANGED <<convIn, bboxVars, provVars, extractVars, parseVars>>

NextConvert == ConvertPdf

SpecConvert == InitConvert /\ [][NextConvert]_vars

\* Rasterization or overlay building fails: convert_from_path raises, or the
\* encoding of some page does.
RasterFails(inp) ==
    \/ inp.raster.st = "raise"
    \/ \E i \in 1..Len(inp.raster.images) : inp.raster.images[i].save = "raise"

\* C3: when rasterization or overlay building fails at any point, also on a
\* page after the first, convert_pdf still returns, with pages = [] and
\* num_pages = 0 and with the text and objects of the extraction step.
C3_RasterFailureEmptiesPages ==
    (/\ pc = "ret"
     /\ convIn.converter = "ok"
     /\ _extract_objects(convIn.doc).st = "ok"
     /\ RasterFails(convIn))
    => /\ convRet.st = "ok"
       /\ convRet.pages = <<>>
       /\ convRet.num_pages = 0
       /\ convRet.text = convIn.text
       /\ convRet.objects = _extract_objects(convIn.doc).objects

\* What does hold of the code: pages is empty when convert_from_path raises or
\* the first page fails, and text and objects are returned in every case.
RasterFailureKeepsTextAndObjects ==
    (/\ pc = "ret"
     /\ convIn.converter = "ok"
     /\ _extract_objects(convIn.doc).st = "ok"
     /\ RasterFails(convIn))
    => /\ convRet.st = "ok"
       /\ convRet.num_pages = Len(convRet.pages)
       /\ convRet.text = convIn.text
       /\ convRet.objects = _extract_objects(convIn.doc).objects
       /\ (convIn.raster.st = "raise" \/ convIn.raster.images[1].save = "raise")
            => convRet.pages = <<>>

\* The bbox (left, top, right, bottom), in tenths of a point and with the
\* origin bottom-left, that covers a whole page of w_px x h_px pixels.
CoversPage(b, w_px, h_px) ==
    /\ b.st = "ok"
    /\ b.v[1] = 0
    /\ b.v[2] * Dpi = 10 * h_px * PointsPerInch
    /\ b.v[3] * Dpi = 10 * w_px * PointsPerInch
    /\ b.v[4] = 0

\* C9: an object whose bbox covers its whole page gets bbox_norm [0, 0, 1, 1].
C9_FullPageMapsToUnitBox ==
    pc = "ret" /\ convRet.st = "ok" =>
        \A k \in 1..Len(convRet.pages) :
            LET pg == convRet.pages[k]
            IN  \A j \in 1..Len(pg.elements) :
                    CoversPage(pg.elements[j].obj.bbox,
                               pg.image_width_px, pg.image_height_px)
                    => pg.elements[j].bbox_norm =
                           Ok(<<0, 0, NormScale, NormScale>>)

\* ------------------------------------------------------- POST /parse, concurrent requests
InitParse ==
    /\ requests \in [Reqs -> {NewRequest(ct) : ct \in ContentTypes}]
    /\ files = {}
    /\ pc = "idle"
    /\ IdleBbox
    /\ IdleProv
    /\ IdleExtract
    /\ IdleConv

Others == <<pc, bboxVars, provVars, extractVars, convVars>>

\* The content type is refused: 400, and the handler returns.
Reject(r) ==
    /\ requests[r].pc = "start"
    /\ ~IsPdfContentType(requests[r].content_type)
    /\ requests' = [requests EXCEPT ![r].pc = "done", ![r].status = 400,
                                    ![r].error = "File must be a PDF"]
    /\ UNCHANGED <<files, Others>>

\* The content type is accepted: the try block is entered.
Accept(r) ==
    /\ requests[r].pc = "start"
    /\ IsPdfContentType(requests[r].content_type)
    /\ requests' = [requests EXCEPT ![r].pc = "create"]
    /\ UNCHANGED <<files, Others>>

\* NamedTemporaryFile(delete=False): the file now exists under a name of its own.
CreateTemp(r) ==
    /\ requests[r].pc = "create"
    /\ requests' = [requests EXCEPT ![r].pc = "read", ![r].created = TRUE]
    /\ files' = files \cup {r}
    /\ UNCHANGED Others

\* NamedTemporaryFile raises: no file, the except clause is next.
CreateTempFails(r) ==
    /\ requests[r].pc = "create"
    /\ requests' = [requests EXCEPT ![r].pc = "except"]
    /\ UNCHANGED <<files, Others>>

\* await file.read() returns the content.
ReadUpload(r) ==
    /\ requests[r].pc = "read"
    /\ requests' = [requests EXCEPT ![r].pc = "write", ![r].read = TRUE]
    /\ UNCHANGED <<files, Others>>

\* await file.read() raises: the with block closes the file and keeps it
\* (delete=False); tmp_path is not assigned.
ReadUploadFails(r) ==
    /\ requests[r].pc = "read"
    /\ requests' = [requests EXCEPT ![r].pc = "except"]
    /\ UNCHANGED <<files, Others>>

\* tmp.write(content), then tmp_path = Path(tmp.name), and the with block ends.
WriteTemp(r) ==
    /\ requests[r].pc = "write"
    /\ requests' = [requests EXCEPT ![r].pc = "convert", ![r].tmp_path_bound = TRUE]
    /\ UNCHANGED <<files, Others>>

\* tmp.write(content) raises: as for a failed read.
WriteTempFails(r) ==
    /\ requests[r].pc = "write"
    /\ requests' = [requests EXCEPT ![r].pc = "except"]
    /\ UNCHANGED <<files, Others>>

\* The request after result = convert_pdf(tmp_path): the 200 response is built,
\* or the exception goes to the except clause.
AfterConvert(req, res) ==
    IF res.st = "ok"
    THEN [req EXCEPT !.pc = "finally", !.converted = TRUE, !.status = 200,
                     !.result = res]
    ELSE [req EXCEPT !.pc = "except", !.converted = TRUE]

Convert(r) ==
    /\ requests[r].pc = "convert"
    /\ \E inp \in ParseConvInputs :
          requests' = [requests EXCEPT ![r] = AfterConvert(requests[r], convert_pdf(inp))]
    /\ UNCHANGED <<files, Others>>

\* except Exception: the 500 response.
Except(r) ==
    /\ requests[r].pc = "except"
    /\ requests' = [requests EXCEPT ![r].pc = "finally", ![r].status = 500,
                                    ![r].error = "Failed to process PDF"]
    /\ UNCHANGED <<files, Others>>

\* finally: the file is unlinked when tmp_path is a local and the file exists.
Finally(r) ==
    /\ requests[r].pc = "finally"
    /\ requests' = [requests EXCEPT ![r].pc = "done"]
    /\ files' = IF requests[r].tmp_path_bound /\ r \in files
                THEN files \ {r} ELSE files
    /\ UNCHANGED Others

NextParse ==
    \E r \in Reqs :
        \/ Reject(r)
        \/ Accept(r)
        \/ CreateTemp(r)
        \/ CreateTempFails(r)
        \/ ReadUpload(r)
        \/ ReadUploadFails(r)
        \/ WriteTemp(r)
        \/ WriteTempFails(r)
        \/ Convert(r)
        \/ Except(r)
        \/ Finally(r)

SpecParse == InitParse /\ [][NextParse]_vars

\* C1: once a request that passed the content-type check has its response, its
\* temp file no longer exists, whether conversion succeeded, convert_pdf raised,
\* or reading the upload or writing the file failed.
C1_TempFileGoneAfterResponse ==
    \A r \in Reqs :
        (/\ requests[r].pc = "done"
         /\ requests[r].content_type \in {"application/pdf", "application/octet-stream"})
        => r \notin files

\* What does hold of the code: the temp file is gone when the handler got as
\* far as assigning tmp_path, whether convert_pdf then returned or raised.
TempFileGoneOnceWritten ==
    \A r \in Reqs :
        requests[r].pc = "done" /\ requests[r].tmp_path_bound => r \notin files

\* C4: a request whose content type is neither application/pdf nor
\* application/octet-stream gets 400 {"error": "File must be a PDF"}; no temp
\* file is created for it, its upload is not read, convert_pdf is not invoked.
C4_NonPdfRejectedUntouched ==
    \A r \in Reqs :
        requests[r].content_type \notin {"application/pdf", "application/octet-stream"}
        => /\ ~requests[r].created
           /\ ~requests[r].read
           /\ ~requests[r].converted
           /\ r \notin files
           /\ requests[r].pc \in {"start", "done"}
           /\ requests[r].pc = "done" =>
                 /\ requests[r].status = 400
                 /\ requests[r].error = "File must be a PDF"

\* A text/plain upload was answered while another request holds a temp file.
C4_Witness ==
    \E r, q \in Reqs :
        /\ requests[r].content_type = "text/plain"
        /\ requests[r].pc = "done"
        /\ requests[r].status = 400
        /\ q \in files

====
